---- MODULE Spec2Model ----
(***************************************************************************)
(* SignatureService (src/src/services/signatureService.ts): the two        *)
(* localStorage-backed signature stores, the asynchronous PDF save and the *)
(* timer-based sync of unsynced records.                                   *)
(*                                                                         *)
(* JavaScript runs one task at a time: every action below is one task      *)
(* (a synchronous call, the part of savePDFSignature before or after its   *)
(* await, a setTimeout callback, an 'online' event handler).               *)
(***************************************************************************)
EXTENDS Integers, Sequences, FiniteSets, TLC

\* ------------------------------------------------------------------ bounds
MaxRecords == 2     \* records created in one run (ids 1..MaxRecords)
MaxClock == 2       \* the last value of Date.now() (the first is 0)
MaxTimers == 2      \* setTimeout callbacks pending at one time
MaxCalls == 2       \* savePDFSignature calls suspended at one time
MaxSaves == 1       \* signatures saved from a screen in one run

\* ------------------------------------------------------------------ inputs
DocumentIds == {"d1"}
DocumentTypes == {"invoice", "receipt"}
\* signatureDataUrl: what the data URL decodes to.  png = FALSE is a data URL
\* embedPng cannot decode.
PngDataUrl == [png |-> TRUE, width |-> 400, height |-> 100]
DataUrls == {PngDataUrl, [png |-> FALSE, width |-> 0, height |-> 0]}
\* A Uint8Array is a sequence of bytes.  pdf-lib is outside the repository:
\* its file format is stood for by a two-byte header, 37 ('%') and the page
\* count, followed by the images drawn (page, x, y, width, height each, the
\* sizes in whole units).
PdfHeader == 37
Document(pageCount) == <<PdfHeader, pageCount>>
\* The inputs: an empty buffer, which does not parse, and a two-page document.
TwoPages == <<PdfHeader, 2>>
PdfBuffers == {<<>>, TwoPages}
Positions == [x : {50}, y : {70}, pageIndex : {-1, 1, 2}]
At(pageIndex) == [x |-> 50, y |-> 70, pageIndex |-> pageIndex]
\* The arguments savePDFSignature is called with: the two-page document
\* signed on its last page, and the same call with one argument wrong.
PDFSaveInputs ==
    {<<b, u, p>> \in PdfBuffers \X DataUrls \X Positions :
        \/ b = TwoPages /\ u = PngDataUrl
        \/ b = <<>> /\ u = PngDataUrl /\ p = At(1)
        \/ b = TwoPages /\ u /= PngDataUrl /\ p = At(1)}

\* no function is under check
NoArgs == <<>>

\* The images drawn for applySignatureToPdf: every PNG of at most MaxWidth
\* by MaxHeight pixels, and the 400 and 100 of PngDataUrl as width or height.
MaxWidth == 12
MaxHeight == 3
Images ==
    {[png |-> TRUE, width |-> w, height |-> h] :
        w \in (1..MaxWidth) \cup {PngDataUrl.width},
        h \in (1..MaxHeight) \cup {PngDataUrl.height}}
\* The arguments drawn for applySignatureToPdf: a document of 1..MaxPages
\* pages, an image or a data URL that is no PNG, a page index from -1 to
\* MaxPages.
MaxPages == 2
AnnotateArgs ==
    {<<Document(n), u, At(p)>> :
        n \in 1..MaxPages, u \in Images \cup DataUrls, p \in (0 - 1)..MaxPages}

\* The byte buffers drawn for the storage round trip: every sequence of at
\* most MaxLen of these bytes, as it is (no PDF) and as the content of the
\* two-page document.
MaxLen == 2
Bytes == {0, 128, 255}
ByteBuffers == UNION {[1..n -> Bytes] : n \in 0..MaxLen}
CodecArgs ==
    {<<b, PngDataUrl, At(1)>> :
        b \in ByteBuffers \cup {TwoPages \o c : c \in ByteBuffers}}

\* no component is mounted
NoUi == [component |-> "none"]

VARIABLES
    sigs,       \* localStorage['delivery_signatures'], parsed
    pdfSigs,    \* localStorage['delivery_pdf_signatures'], parsed
    onLine,     \* navigator.onLine
    timers,     \* pending setTimeout callbacks, in firing order
    pdfCalls,   \* savePDFSignature calls suspended at their await
    nextId,     \* the next value crypto.randomUUID() returns
    ret,        \* the last task run and what it gave its caller
    log,        \* the saves that returned a record, in the order they returned
    now,        \* Date.now()
    args,       \* the arguments drawn for the function under check
    ui          \* the state of the component on screen

vars == <<sigs, pdfSigs, onLine, timers, pdfCalls, nextId, ret, log, now, args, ui>>

Ids == 1..MaxRecords

\* ---------------------------------------------------------------- helpers
RECURSIVE SelectUnsynced(_)
\* Array.prototype.filter(sig => !sig.synced)
SelectUnsynced(s) ==
    IF s = <<>> THEN <<>>
    ELSE IF ~Head(s).synced THEN <<Head(s)>> \o SelectUnsynced(Tail(s))
    ELSE SelectUnsynced(Tail(s))

IdsOf(s) == [i \in 1..Len(s) |-> s[i].id]
IdSet(s) == {s[i].id : i \in 1..Len(s)}

\* Array.from(uint8Array): the numbers of the buffer, as a JSON array
ArrayFrom(bytes) == [i \in 1..Len(bytes) |-> bytes[i]]

\* new Int8Array(array) for new Uint8Array(array)
NewUint8Array_Int8(array) ==
    [i \in 1..Len(array) |->
        IF array[i] % 256 >= 128 THEN (array[i] % 256) - 256 ELSE array[i] % 256]

\* new Uint8Array(array): each number converted to a byte
NewUint8Array(array) == [i \in 1..Len(array) |-> array[i] % 256]

\* JSON.stringify of a number of a byte array: its decimal digits, written
\* here one digit to a hexadecimal place (255 is 2, 5, 5: 16 * 16 * 2 +
\* 16 * 5 + 5)
NumberToJSON(n) == 256 * (n \div 100) + 16 * ((n \div 10) % 10) + (n % 10)

\* JSON.parse of the decimal digits of a number
JSONToNumber(digits) ==
    100 * (digits \div 256) + 10 * ((digits \div 16) % 16) + (digits % 16)

\* JSON.stringify of an array of numbers
StringifyArray(array) == [i \in 1..Len(array) |-> NumberToJSON(array[i])]

\* JSON.parse of an array of numbers
ParseArray(text) == [i \in 1..Len(text) |-> JSONToNumber(text[i])]

\* a byte buffer as it is persisted: JSON.stringify(Array.from(bytes))
EncodeForStorage(bytes) == StringifyArray(ArrayFrom(bytes))

\* a persisted byte buffer read back: new Uint8Array(JSON.parse(text))
DecodeFromStorage(text) == NewUint8Array(ParseArray(text))

\* JSON.stringify(pdfSignatures.map(sig => ({...sig, originalPdfBytes:
\* Array.from(..), signedPdfBytes: Array.from(..)}))): the value persisted
StringifyPDFSignatures(signatures) ==
    [i \in 1..Len(signatures) |->
        [signatures[i] EXCEPT !.originalPdfBytes = EncodeForStorage(@),
                              !.signedPdfBytes = EncodeForStorage(@)]]

\* a persisted value that is not JSON text
Corrupt == <<[corrupt |-> TRUE]>>

\* JSON.parse(signaturesJson) throws a SyntaxError
ParseThrows(stored) == stored = Corrupt

\* getStoredSignatures(): JSON.parse of the persisted plain store (strings,
\* numbers and booleans only, which JSON gives back as written).  There is
\* no try around it (lines 144-147): where ParseThrows(stored), the caller
\* gets the SyntaxError and this value is not used.
GetStoredSignatures(stored) == stored

\* getStoredPDFSignatures(): JSON.parse of the persisted PDF store, the byte
\* arrays turned into Uint8Arrays again; [] where the catch of lines 137-140
\* takes the SyntaxError
GetStoredPDFSignatures(stored) ==
    IF ParseThrows(stored) THEN <<>>
    ELSE [i \in 1..Len(stored) |->
            [stored[i] EXCEPT !.originalPdfBytes = DecodeFromStorage(@),
                              !.signedPdfBytes = DecodeFromStorage(@)]]

GetUnsyncedSignatures(stored) == SelectUnsynced(GetStoredSignatures(stored))

GetUnsyncedPDFSignatures(stored) == SelectUnsynced(GetStoredPDFSignatures(stored))

\* markAsSynced with `synced: !sig.synced` for `synced: true`
MarkAsSynced_Toggle(stored, id) ==
    [i \in 1..Len(stored) |->
        IF stored[i].id = id
        THEN [stored[i] EXCEPT !.synced = ~stored[i].synced]
        ELSE stored[i]]

\* markAsSynced with `{...sig, synced: true}` for every record
MarkAsSynced_EveryRecord(stored, id) ==
    [i \in 1..Len(stored) |-> [stored[i] EXCEPT !.synced = TRUE]]

\* markAsSynced(id): the value it writes to the plain store
MarkAsSynced(stored, id) ==
    LET signatures == GetStoredSignatures(stored)
    IN [i \in 1..Len(signatures) |->
          IF signatures[i].id = id
          THEN [signatures[i] EXCEPT !.synced = TRUE]
          ELSE signatures[i]]

\* markPDFAsSynced with `synced: !sig.synced` for `synced: true`
MarkPDFAsSynced_Toggle(stored, id) ==
    LET signatures == GetStoredPDFSignatures(stored)
    IN StringifyPDFSignatures(
          [i \in 1..Len(signatures) |->
              IF signatures[i].id = id
              THEN [signatures[i] EXCEPT !.synced = ~signatures[i].synced]
              ELSE signatures[i]])

\* markPDFAsSynced persisting the signed bytes without Array.from: JSON
\* writes a Uint8Array as an object, which reads back as an empty buffer
MarkPDFAsSynced_NoArrayFrom(stored, id) ==
    LET signatures == GetStoredPDFSignatures(stored)
    IN [i \in 1..Len(signatures) |->
          [stored[i] EXCEPT !.synced = @ \/ signatures[i].id = id,
                            !.signedPdfBytes = <<>>]]

\* markPDFAsSynced(id): the value it writes to the PDF store
MarkPDFAsSynced(stored, id) ==
    LET signatures == GetStoredPDFSignatures(stored)
        updatedSignatures ==
            [i \in 1..Len(signatures) |->
                IF signatures[i].id = id
                THEN [signatures[i] EXCEPT !.synced = TRUE]
                ELSE signatures[i]]
    IN StringifyPDFSignatures(updatedSignatures)

\* attemptSync taking getStoredSignatures() for getUnsyncedSignatures()
AttemptSync_AllRecords(on, stored, tm) ==
    IF ~on \/ Len(SelectUnsynced(stored)) = 0 THEN tm
    ELSE Append(tm, [store |-> "plain", snapshot |-> IdsOf(stored)])

\* attemptSync without its `length === 0` return
AttemptSync_NoEmptyCheck(on, stored, tm) ==
    IF ~on THEN tm
    ELSE Append(tm, [store |-> "plain",
                     snapshot |-> IdsOf(SelectUnsynced(stored))])

\* attemptSync(): the timer queue after the call.  The callback keeps the
\* unsynced records read here; it uses their ids.
AttemptSync(on, stored, tm) ==
    IF ~on THEN tm
    ELSE LET unsyncedSignatures == GetUnsyncedSignatures(stored)
         IN IF Len(unsyncedSignatures) = 0 THEN tm
            ELSE Append(tm, [store |-> "plain",
                             snapshot |-> IdsOf(unsyncedSignatures)])

\* attemptSyncPDF without its `!navigator.onLine` return
AttemptSyncPDF_NoOnLineCheck(on, stored, tm) ==
    IF Len(SelectUnsynced(stored)) = 0 THEN tm
    ELSE Append(tm, [store |-> "pdf",
                     snapshot |-> IdsOf(SelectUnsynced(stored))])

\* attemptSyncPDF(): the timer queue after the call
AttemptSyncPDF(on, stored, tm) ==
    IF ~on THEN tm
    ELSE LET unsyncedSignatures == GetUnsyncedPDFSignatures(stored)
         IN IF Len(unsyncedSignatures) = 0 THEN tm
            ELSE Append(tm, [store |-> "pdf",
                             snapshot |-> IdsOf(unsyncedSignatures)])

RECURSIVE ForEachMarkAsSynced(_, _)
\* unsyncedSignatures.forEach(sig => this.markAsSynced(sig.id))
ForEachMarkAsSynced(stored, snapshot) ==
    IF snapshot = <<>> THEN stored
    ELSE ForEachMarkAsSynced(MarkAsSynced(stored, Head(snapshot)), Tail(snapshot))

RECURSIVE ForEachMarkPDFAsSynced(_, _)
\* unsyncedSignatures.forEach(sig => this.markPDFAsSynced(sig.id))
ForEachMarkPDFAsSynced(stored, snapshot) ==
    IF snapshot = <<>> THEN stored
    ELSE ForEachMarkPDFAsSynced(MarkPDFAsSynced(stored, Head(snapshot)),
                                Tail(snapshot))

SignatureWidth == 200

\* ------------------------------------------------------ number arithmetic
\* A JavaScript number is an IEEE 754 double.  A positive one is written
\* [exp, man]: man is the Precision bits of its significand, the first bit 1,
\* and exp the power of two of that first bit.
Precision == 53

RECURSIVE Pow2(_)
Pow2(k) == IF k = 0 THEN 1 ELSE 2 * Pow2(k - 1)

RECURSIVE BitsOf(_)
\* the binary digits of a positive integer, the highest first
BitsOf(n) == IF n < 2 THEN <<n>> ELSE Append(BitsOf(n \div 2), n % 2)

RECURSIVE ValueOf(_, _)
\* the integer that has the first k binary digits of `bits`
ValueOf(bits, k) ==
    IF k = 0 THEN 0 ELSE 2 * ValueOf(bits, k - 1) + bits[k]

\* The digits after the first are worked on in Chunks chunks of ChunkBits
\* digits, each chunk an integer below 2^ChunkBits.
ChunkBits == 13
Chunks == (Precision - 1) \div ChunkBits

\* the binary digits of a sequence of chunks
BitsOfChunks(chunks) ==
    [i \in 1..(Len(chunks) * ChunkBits) |->
        (chunks[((i - 1) \div ChunkBits) + 1]
            \div Pow2(ChunkBits - 1 - ((i - 1) % ChunkBits))) % 2]

\* the chunks of a sequence of Chunks * ChunkBits binary digits
ChunksOfBits(bits) ==
    [c \in 1..Chunks |->
        ValueOf(SubSeq(bits, (c - 1) * ChunkBits + 1, c * ChunkBits),
                ChunkBits)]

RECURSIVE Quotient(_, _, _)
\* long division: the next k chunks of the binary digits of r / d, for
\* r < d, and the remainder left after them
Quotient(r, d, k) ==
    IF k = 0 THEN [chunks |-> <<>>, rem |-> r]
    ELSE LET t == r * Pow2(ChunkBits)
             rest == Quotient(t % d, d, k - 1)
         IN [chunks |-> <<t \div d>> \o rest.chunks, rem |-> rest.rem]

\* bits + 1 in the same number of digits (all zeros after all ones)
Increment(bits) ==
    LET zeros == {i \in 1..Len(bits) : bits[i] = 0}
        last == IF zeros = {} THEN 0
                ELSE CHOOSE i \in zeros : \A k \in zeros : k <= i
    IN [i \in 1..Len(bits) |->
          IF i < last THEN bits[i] ELSE IF i = last THEN 1 ELSE 0]

\* the double after d
Succ(d) ==
    LET up == Increment(d.man)
    IN IF up[1] = 0 THEN [exp |-> d.exp + 1, man |-> [up EXCEPT ![1] = 1]]
       ELSE [exp |-> d.exp, man |-> up]

\* round to nearest, ties to even: the double for the significand `bits`
\* followed by the digit `guard` and by digits that are not all 0 iff `sticky`
Round(exp, bits, guard, sticky) ==
    IF guard = 1 /\ (sticky \/ bits[Len(bits)] = 1)
    THEN Succ([exp |-> exp, man |-> bits])
    ELSE [exp |-> exp, man |-> bits]

RECURSIVE FloorLog(_, _)
\* the largest k with a * 2^k <= b, for a <= b
FloorLog(a, b) == IF 2 * a > b THEN 0 ELSE 1 + FloorLog(2 * a, b)

RECURSIVE CeilLog(_, _)
\* the smallest k with a * 2^k >= b
CeilLog(a, b) == IF a >= b THEN 0 ELSE 1 + CeilLog(2 * a, b)

\* p / q for positive integers p and q below 2^17, as the division of two
\* numbers gives it: the double nearest to the quotient
Divide(p, q) ==
    LET exp == IF p >= q THEN FloorLog(q, p) ELSE 0 - CeilLog(p, q)
        n == IF p >= q THEN p ELSE p * Pow2(0 - exp)
        d == IF p >= q THEN q * Pow2(exp) ELSE q
        quot == Quotient(n - d, d, Chunks)
        guard == IF 2 * quot.rem >= d THEN 1 ELSE 0
    IN Round(exp, <<1>> \o BitsOfChunks(quot.chunks), guard,
             2 * quot.rem - guard * d /= 0)

RECURSIVE TimesChunks(_, _, _)
\* the chunks of (chunks * n + carry), the first of them not cut to
\* ChunkBits digits
TimesChunks(chunks, n, carry) ==
    IF chunks = <<>> THEN <<n + carry>>
    ELSE LET t == chunks[Len(chunks)] * n + carry
         IN Append(TimesChunks(SubSeq(chunks, 1, Len(chunks) - 1), n,
                               t \div Pow2(ChunkBits)),
                   t % Pow2(ChunkBits))

\* n * d for a positive integer n below 2^17 and a double d: the double
\* nearest to the product
Times(n, d) ==
    LET chunks == TimesChunks(ChunksOfBits(Tail(d.man)), n, 0)
        prod == BitsOf(Head(chunks)) \o BitsOfChunks(Tail(chunks))
        len == Len(prod)
    IN Round(d.exp + len - Precision, SubSeq(prod, 1, Precision),
             IF len > Precision THEN prod[Precision + 1] ELSE 0,
             \E i \in (Precision + 2)..len : prod[i] = 1)

\* the integer part of a double
Floor(d) == IF d.exp < 0 THEN 0 ELSE ValueOf(d.man, d.exp + 1)

\* signatureWidth / signatureImage.height for signatureWidth /
\* signatureImage.width
ScaleFactor_ByHeight(image) == Divide(SignatureWidth, image.height)

\* signatureWidth / signatureImage.width (line 105)
ScaleFactor(image) == Divide(SignatureWidth, image.width)

\* signatureImage.scale(factor) of pdf-lib: both sides times the factor
Scale(image, factor) ==
    [width |-> Times(image.width, factor),
     height |-> Times(image.height, factor)]

\* signatureDimensions (line 105) of every image a call is made with
SignatureDimensions ==
    [image \in Images |-> Scale(image, ScaleFactor(image))]

\* pages[position.pageIndex] looked up from 1
HasPage_FromOne(pageCount, pageIndex) == pageIndex >= 1 /\ pageIndex <= pageCount

\* pages[position.pageIndex] is a page (lines 94-96)
HasPage(pageCount, pageIndex) == pageIndex >= 0 /\ pageIndex < pageCount

\* applySignatureToPdf(pdfBytes, signatureDataUrl, position): the bytes of the
\* signed document and the size the image is drawn with, or the error it
\* rethrows
ApplySignatureToPdf(pdfBytes, signatureDataUrl, position) ==
    IF ~(Len(pdfBytes) >= 2 /\ pdfBytes[1] = PdfHeader)
    THEN [ok |-> FALSE, error |-> "load"]
    ELSE LET pageCount == pdfBytes[2]
         IN IF ~HasPage(pageCount, position.pageIndex)
            THEN [ok |-> FALSE, error |-> "Page index out of bounds"]
            ELSE IF ~signatureDataUrl.png
            THEN [ok |-> FALSE, error |-> "embedPng"]
            ELSE LET signatureDimensions == SignatureDimensions[signatureDataUrl]
                 IN [ok |-> TRUE,
                     width |-> signatureDimensions.width,
                     height |-> signatureDimensions.height,
                     bytes |-> pdfBytes \o
                               <<position.pageIndex, position.x, position.y,
                                 Floor(signatureDimensions.width) % 256,
                                 Floor(signatureDimensions.height) % 256>>]

\* the record of saveSignature built with synced: true
NewSignatureData_Synced(id, documentId, documentType, signatureDataUrl) ==
    [id |-> id,
     documentId |-> documentId,
     documentType |-> documentType,
     signatureDataUrl |-> signatureDataUrl,
     timestamp |-> now,
     synced |-> TRUE]

\* the record saveSignature builds (lines 27-34)
NewSignatureData(id, documentId, documentType, signatureDataUrl) ==
    [id |-> id,
     documentId |-> documentId,
     documentType |-> documentType,
     signatureDataUrl |-> signatureDataUrl,
     timestamp |-> now,
     synced |-> FALSE]

\* signatures.unshift(signatureData) for signatures.push(signatureData)
PushSignature_Unshift(signatures, signatureData) == <<signatureData>> \o signatures

\* signatures.push(signatureData) (line 36)
PushSignature(signatures, signatureData) == Append(signatures, signatureData)

\* the record savePDFSignature builds (lines 60-70)
NewPDFSignatureData(id, call, signedPdfBytes) ==
    [id |-> id,
     documentId |-> call.documentId,
     documentType |-> "invoice",
     signatureDataUrl |-> call.signatureDataUrl,
     originalPdfBytes |-> call.originalPdfBytes,
     signedPdfBytes |-> signedPdfBytes,
     signaturePosition |-> call.signaturePosition,
     timestamp |-> now,
     synced |-> FALSE]

\* the outcome of the annotation a suspended call waits for
AnnotationOf(call) ==
    ApplySignatureToPdf(call.originalPdfBytes, call.signatureDataUrl,
                        call.signaturePosition)

\* the entry of log for a save that returned the record `id`
Returned(store, id) == [store |-> store, id |-> id, onLine |-> onLine]

\* ------------------------------------------------------------------- Init
Init ==
    /\ sigs = <<>>
    /\ pdfSigs = <<>>
    /\ onLine \in BOOLEAN
    /\ timers = <<>>
    /\ pdfCalls = <<>>
    /\ nextId = 1
    /\ ret = [op |-> "none", outcome |-> "none", id |-> 0]
    /\ log = <<>>
    /\ now = 0
    /\ args = NoArgs
    /\ ui = NoUi

\* ---------------------------------------------------------------- actions
\* saveSignature(documentId, documentType, signatureDataUrl)
SaveSignature(documentId, documentType, signatureDataUrl) ==
    /\ ~ParseThrows(sigs)
    /\ nextId + Len(pdfCalls) <= MaxRecords
    /\ LET signatureData == NewSignatureData(nextId, documentId, documentType,
                                             signatureDataUrl)
           signatures == PushSignature(GetStoredSignatures(sigs), signatureData)
           tm == AttemptSync(onLine, signatures, timers)
       IN /\ Len(tm) <= MaxTimers
          /\ sigs' = signatures
          /\ timers' = tm
          /\ nextId' = nextId + 1
          /\ ret' = [op |-> "saveSignature", outcome |-> "returned",
                     id |-> signatureData.id]
          /\ log' = Append(log, Returned("plain", signatureData.id))
    /\ UNCHANGED <<pdfSigs, onLine, pdfCalls, now, args, ui>>

\* savePDFSignature(...) up to its await: the store is read (line 51), the
\* annotation is started and the call is suspended
SavePDFSignatureCall(documentId, originalPdfBytes, signatureDataUrl, signaturePosition) ==
    /\ Len(pdfCalls) < MaxCalls
    /\ nextId + Len(pdfCalls) <= MaxRecords
    /\ pdfCalls' = Append(pdfCalls,
                          [pdfSignatures |-> GetStoredPDFSignatures(pdfSigs),
                           documentId |-> documentId,
                           originalPdfBytes |-> originalPdfBytes,
                           signatureDataUrl |-> signatureDataUrl,
                           signaturePosition |-> signaturePosition])
    /\ ret' = [op |-> "savePDFSignature", outcome |-> "pending", id |-> 0]
    /\ UNCHANGED <<sigs, pdfSigs, onLine, timers, nextId, log, now, args, ui>>

\* pdfCalls without its k-th element
RemoveCall(k) == [i \in 1..(Len(pdfCalls) - 1) |->
                    IF i < k THEN pdfCalls[i] ELSE pdfCalls[i + 1]]

\* savePDFSignature after its await, the annotation fulfilled (lines 60-82)
SavePDFSignatureResume(k) ==
    /\ k \in 1..Len(pdfCalls)
    /\ LET call == pdfCalls[k]
           applied == ApplySignatureToPdf(call.originalPdfBytes,
                                          call.signatureDataUrl,
                                          call.signaturePosition)
       IN /\ applied.ok
          /\ LET pdfSignatureData == NewPDFSignatureData(nextId, call, applied.bytes)
                 pdfSignatures == Append(call.pdfSignatures, pdfSignatureData)
                 stored == StringifyPDFSignatures(pdfSignatures)
                 tm == AttemptSyncPDF(onLine, stored, timers)
             IN /\ Len(tm) <= MaxTimers
                /\ pdfSigs' = stored
                /\ timers' = tm
                /\ nextId' = nextId + 1
                /\ ret' = [op |-> "savePDFSignature", outcome |-> "returned",
                           id |-> pdfSignatureData.id]
                /\ log' = Append(log, Returned("pdf", pdfSignatureData.id))
    /\ pdfCalls' = RemoveCall(k)
    /\ UNCHANGED <<sigs, onLine, now, args, ui>>

\* savePDFSignature with an applySignatureToPdf whose catch logs the error
\* and does not rethrow it: the record is saved without signed bytes
SavePDFSignatureReject_Swallow(k) ==
    /\ k \in 1..Len(pdfCalls)
    /\ LET call == pdfCalls[k]
           applied == ApplySignatureToPdf(call.originalPdfBytes,
                                          call.signatureDataUrl,
                                          call.signaturePosition)
           stored == StringifyPDFSignatures(
                        Append(call.pdfSignatures,
                               NewPDFSignatureData(nextId, call, <<>>)))
       IN /\ ~applied.ok
          /\ pdfSigs' = stored
          /\ timers' = timers
          /\ nextId' = nextId + 1
          /\ ret' = [op |-> "savePDFSignature", outcome |-> "returned",
                     id |-> nextId]
          /\ log' = Append(log, Returned("pdf", nextId))
    /\ pdfCalls' = RemoveCall(k)
    /\ UNCHANGED <<sigs, onLine, now, args, ui>>

\* savePDFSignature after its await, the annotation rejected: the error
\* leaves the function at line 54
SavePDFSignatureReject(k) ==
    /\ k \in 1..Len(pdfCalls)
    /\ LET call == pdfCalls[k]
           applied == ApplySignatureToPdf(call.originalPdfBytes,
                                          call.signatureDataUrl,
                                          call.signaturePosition)
       IN /\ ~applied.ok
          /\ ret' = [op |-> "savePDFSignature", outcome |-> "threw", id |-> 0]
    /\ pdfCalls' = RemoveCall(k)
    /\ UNCHANGED <<sigs, pdfSigs, onLine, timers, nextId, log, now, args, ui>>

\* the callback checking navigator.onLine again and marking nothing offline
SyncCallback_IfOnLine ==
    /\ timers /= <<>>
    /\ Head(timers).store = "plain"
    /\ ~ParseThrows(sigs)
    /\ sigs' = IF onLine THEN ForEachMarkAsSynced(sigs, Head(timers).snapshot)
               ELSE sigs
    /\ timers' = Tail(timers)
    /\ ret' = [op |-> "syncCallback", outcome |-> "returned", id |-> 0]
    /\ UNCHANGED <<pdfSigs, onLine, pdfCalls, nextId, log, now, args, ui>>

\* the setTimeout callback of attemptSync (lines 194-199)
SyncCallback ==
    /\ timers /= <<>>
    /\ Head(timers).store = "plain"
    /\ ~ParseThrows(sigs)
    /\ sigs' = ForEachMarkAsSynced(sigs, Head(timers).snapshot)
    /\ timers' = Tail(timers)
    /\ ret' = [op |-> "syncCallback", outcome |-> "returned", id |-> 0]
    /\ UNCHANGED <<pdfSigs, onLine, pdfCalls, nextId, log, now, args, ui>>

\* the callback marking every record of the store for those of its snapshot
SyncPDFCallback_WholeStore ==
    /\ timers /= <<>>
    /\ Head(timers).store = "pdf"
    /\ pdfSigs' = ForEachMarkPDFAsSynced(pdfSigs, IdsOf(pdfSigs))
    /\ timers' = Tail(timers)
    /\ ret' = [op |-> "syncPDFCallback", outcome |-> "returned", id |-> 0]
    /\ UNCHANGED <<sigs, onLine, pdfCalls, nextId, log, now, args, ui>>

\* the setTimeout callback of attemptSyncPDF (lines 212-217)
SyncPDFCallback ==
    /\ timers /= <<>>
    /\ Head(timers).store = "pdf"
    /\ pdfSigs' = ForEachMarkPDFAsSynced(pdfSigs, Head(timers).snapshot)
    /\ timers' = Tail(timers)
    /\ ret' = [op |-> "syncPDFCallback", outcome |-> "returned", id |-> 0]
    /\ UNCHANGED <<sigs, onLine, pdfCalls, nextId, log, now, args, ui>>

\* a direct call of the public markAsSynced(id)
MarkAsSyncedCall(id) ==
    /\ ~ParseThrows(sigs)
    /\ sigs' = MarkAsSynced(sigs, id)
    /\ ret' = [op |-> "markAsSynced", outcome |-> "returned", id |-> id]
    /\ UNCHANGED <<pdfSigs, onLine, timers, pdfCalls, nextId, log, now, args, ui>>

\* markPDFAsSynced writing under STORAGE_KEY for PDF_STORAGE_KEY
MarkPDFAsSyncedCall_PlainKey(id) ==
    /\ sigs' = MarkPDFAsSynced(pdfSigs, id)
    /\ ret' = [op |-> "markPDFAsSynced", outcome |-> "returned", id |-> id]
    /\ UNCHANGED <<pdfSigs, onLine, timers, pdfCalls, nextId, log, now, args, ui>>

\* a direct call of the public markPDFAsSynced(id)
MarkPDFAsSyncedCall(id) ==
    /\ pdfSigs' = MarkPDFAsSynced(pdfSigs, id)
    /\ ret' = [op |-> "markPDFAsSynced", outcome |-> "returned", id |-> id]
    /\ UNCHANGED <<sigs, onLine, timers, pdfCalls, nextId, log, now, args, ui>>

\* a direct call of the public attemptSync()
AttemptSyncCall ==
    /\ onLine => ~ParseThrows(sigs)
    /\ LET tm == AttemptSync(onLine, sigs, timers)
       IN /\ Len(tm) <= MaxTimers
          /\ timers' = tm
    /\ ret' = [op |-> "attemptSync", outcome |-> "returned", id |-> 0]
    /\ UNCHANGED <<sigs, pdfSigs, onLine, pdfCalls, nextId, log, now, args, ui>>

\* a direct call of the public attemptSyncPDF()
AttemptSyncPDFCall ==
    /\ LET tm == AttemptSyncPDF(onLine, pdfSigs, timers)
       IN /\ Len(tm) <= MaxTimers
          /\ timers' = tm
    /\ ret' = [op |-> "attemptSyncPDF", outcome |-> "returned", id |-> 0]
    /\ UNCHANGED <<sigs, pdfSigs, onLine, pdfCalls, nextId, log, now, args, ui>>

\* the device loses connectivity: navigator.onLine becomes false
GoOffline ==
    /\ onLine
    /\ onLine' = FALSE
    /\ ret' = [op |-> "offline", outcome |-> "none", id |-> 0]
    /\ UNCHANGED <<sigs, pdfSigs, timers, pdfCalls, nextId, log, now, args, ui>>

\* the 'online' listener without its attemptSyncPDF() call
OnlineListener_PlainOnly ==
    /\ ~onLine
    /\ ~ParseThrows(sigs)
    /\ onLine' = TRUE
    /\ timers' = AttemptSync(TRUE, sigs, timers)
    /\ Len(timers') <= MaxTimers
    /\ ret' = [op |-> "online", outcome |-> "returned", id |-> 0]
    /\ UNCHANGED <<sigs, pdfSigs, pdfCalls, nextId, log, now, args, ui>>

\* connectivity comes back: navigator.onLine becomes true and the 'online'
\* listener of initSyncListener runs attemptSync() and attemptSyncPDF()
OnlineListener ==
    /\ ~onLine
    /\ ~ParseThrows(sigs)
    /\ onLine' = TRUE
    /\ LET tm == AttemptSyncPDF(TRUE, pdfSigs, AttemptSync(TRUE, sigs, timers))
       IN /\ Len(tm) <= MaxTimers
          /\ timers' = tm
    /\ ret' = [op |-> "online", outcome |-> "returned", id |-> 0]
    /\ UNCHANGED <<sigs, pdfSigs, pdfCalls, nextId, log, now, args, ui>>

\* ------------------------------------------------------------------ faults
\* saveSignature on a plain store that does not parse: getStoredSignatures
\* throws at line 25
SaveSignatureParseThrows ==
    /\ ParseThrows(sigs)
    /\ ret' = [op |-> "saveSignature", outcome |-> "threw", id |-> 0]
    /\ UNCHANGED <<sigs, pdfSigs, onLine, timers, pdfCalls, nextId, log, now, args, ui>>

\* saveSignature with a catch around setItem that logs the error and goes on
SaveSignatureSetItemThrows_Swallow ==
    /\ ~ParseThrows(sigs)
    /\ nextId + Len(pdfCalls) <= MaxRecords
    /\ timers' = AttemptSync(onLine, sigs, timers)
    /\ Len(timers') <= MaxTimers
    /\ nextId' = nextId + 1
    /\ ret' = [op |-> "saveSignature", outcome |-> "returned", id |-> nextId]
    /\ log' = Append(log, Returned("plain", nextId))
    /\ UNCHANGED <<sigs, pdfSigs, onLine, pdfCalls, now, args, ui>>

\* saveSignature whose localStorage.setItem (line 37) throws: the error
\* leaves the function before attemptSync().  The UUID of line 28 is not
\* used again; nextId stays, which keeps the ids of the stored records
\* consecutive.
SaveSignatureSetItemThrows ==
    /\ ~ParseThrows(sigs)
    /\ ret' = [op |-> "saveSignature", outcome |-> "threw", id |-> 0]
    /\ UNCHANGED <<sigs, pdfSigs, onLine, timers, pdfCalls, nextId, log, now, args, ui>>

\* savePDFSignature after its await, the annotation fulfilled, whose
\* localStorage.setItem (line 73) throws: the promise is rejected before
\* attemptSyncPDF()
SavePDFSignatureSetItemThrows(k) ==
    /\ k \in 1..Len(pdfCalls)
    /\ AnnotationOf(pdfCalls[k]).ok
    /\ ret' = [op |-> "savePDFSignature", outcome |-> "threw", id |-> 0]
    /\ pdfCalls' = RemoveCall(k)
    /\ UNCHANGED <<sigs, pdfSigs, onLine, timers, nextId, log, now, args, ui>>

\* the callback of attemptSync on a plain store that does not parse: the
\* first markAsSynced throws at line 161 and nothing catches it
SyncCallbackParseThrows ==
    /\ timers /= <<>>
    /\ Head(timers).store = "plain"
    /\ ParseThrows(sigs)
    /\ timers' = Tail(timers)
    /\ ret' = [op |-> "syncCallback", outcome |-> "threw", id |-> 0]
    /\ UNCHANGED <<sigs, pdfSigs, onLine, pdfCalls, nextId, log, now, args, ui>>

\* the callback of attemptSync in which the setItem of the n-th markAsSynced
\* throws (line 166): the marks before it are persisted, the forEach ends
SyncCallbackSetItemThrows(n) ==
    /\ timers /= <<>>
    /\ Head(timers).store = "plain"
    /\ ~ParseThrows(sigs)
    /\ n \in 1..Len(Head(timers).snapshot)
    /\ sigs' = ForEachMarkAsSynced(sigs, SubSeq(Head(timers).snapshot, 1, n - 1))
    /\ timers' = Tail(timers)
    /\ ret' = [op |-> "syncCallback", outcome |-> "threw", id |-> 0]
    /\ UNCHANGED <<pdfSigs, onLine, pdfCalls, nextId, log, now, args, ui>>

\* the callback of attemptSyncPDF that counts the record whose write threw
\* among the records to mark
SyncPDFCallbackSetItemThrows_MarkFirst(n) ==
    /\ timers /= <<>>
    /\ Head(timers).store = "pdf"
    /\ n \in 1..Len(Head(timers).snapshot)
    /\ pdfSigs' = ForEachMarkPDFAsSynced(pdfSigs,
                                         SubSeq(Head(timers).snapshot, 1, n))
    /\ timers' = Tail(timers)
    /\ ret' = [op |-> "syncPDFCallback", outcome |-> "threw", id |-> 0]
    /\ UNCHANGED <<sigs, onLine, pdfCalls, nextId, log, now, args, ui>>

\* the callback of attemptSyncPDF in which the setItem of the n-th
\* markPDFAsSynced throws (line 181)
SyncPDFCallbackSetItemThrows(n) ==
    /\ timers /= <<>>
    /\ Head(timers).store = "pdf"
    /\ n \in 1..Len(Head(timers).snapshot)
    /\ pdfSigs' = ForEachMarkPDFAsSynced(pdfSigs,
                                         SubSeq(Head(timers).snapshot, 1, n - 1))
    /\ timers' = Tail(timers)
    /\ ret' = [op |-> "syncPDFCallback", outcome |-> "threw", id |-> 0]
    /\ UNCHANGED <<sigs, onLine, pdfCalls, nextId, log, now, args, ui>>

\* the 'online' listener on a plain store that does not parse: attemptSync()
\* throws at line 188 and attemptSyncPDF() is not reached
OnlineListenerParseThrows ==
    /\ ~onLine
    /\ ParseThrows(sigs)
    /\ onLine' = TRUE
    /\ ret' = [op |-> "online", outcome |-> "threw", id |-> 0]
    /\ UNCHANGED <<sigs, pdfSigs, timers, pdfCalls, nextId, log, now, args, ui>>

\* the value under a store's key is replaced by text that is not JSON
CorruptStore(store) ==
    /\ store = "plain" => ~ParseThrows(sigs)
    /\ store = "pdf" => ~ParseThrows(pdfSigs)
    /\ sigs' = IF store = "plain" THEN Corrupt ELSE sigs
    /\ pdfSigs' = IF store = "pdf" THEN Corrupt ELSE pdfSigs
    /\ ret' = [op |-> "corrupt", outcome |-> "none", id |-> 0]
    /\ UNCHANGED <<onLine, timers, pdfCalls, nextId, log, now, args, ui>>

\* a call of getStoredSignatures()
GetStoredSignaturesCall ==
    /\ ret' = IF ParseThrows(sigs)
              THEN [op |-> "getStoredSignatures", outcome |-> "threw", id |-> 0]
              ELSE [op |-> "getStoredSignatures", outcome |-> "returned",
                    id |-> 0, value |-> GetStoredSignatures(sigs)]
    /\ UNCHANGED <<sigs, pdfSigs, onLine, timers, pdfCalls, nextId, log, now, args, ui>>

\* a call of getUnsyncedSignatures()
GetUnsyncedSignaturesCall ==
    /\ ret' = IF ParseThrows(sigs)
              THEN [op |-> "getUnsyncedSignatures", outcome |-> "threw", id |-> 0]
              ELSE [op |-> "getUnsyncedSignatures", outcome |-> "returned",
                    id |-> 0, value |-> GetUnsyncedSignatures(sigs)]
    /\ UNCHANGED <<sigs, pdfSigs, onLine, timers, pdfCalls, nextId, log, now, args, ui>>

\* a call of getStoredPDFSignatures()
GetStoredPDFSignaturesCall ==
    /\ ret' = [op |-> "getStoredPDFSignatures", outcome |-> "returned",
               id |-> 0, value |-> GetStoredPDFSignatures(pdfSigs)]
    /\ UNCHANGED <<sigs, pdfSigs, onLine, timers, pdfCalls, nextId, log, now, args, ui>>

\* a call of getUnsyncedPDFSignatures()
GetUnsyncedPDFSignaturesCall ==
    /\ ret' = [op |-> "getUnsyncedPDFSignatures", outcome |-> "returned",
               id |-> 0, value |-> GetUnsyncedPDFSignatures(pdfSigs)]
    /\ UNCHANGED <<sigs, pdfSigs, onLine, timers, pdfCalls, nextId, log, now, args, ui>>

\* the saves, the connectivity changes and the tasks they lead to
OwnNext ==
    \/ \E d \in DocumentIds, t \in DocumentTypes :
          SaveSignature(d, t, PngDataUrl)
    \/ \E d \in DocumentIds, in \in PDFSaveInputs :
          SavePDFSignatureCall(d, in[1], in[2], in[3])
    \/ \E k \in 1..MaxCalls : SavePDFSignatureResume(k)
    \/ \E k \in 1..MaxCalls : SavePDFSignatureReject(k)
    \/ SyncCallback
    \/ SyncPDFCallback
    \/ GoOffline
    \/ OnlineListener

\* direct calls of the other public methods
DirectCall ==
    \/ \E id \in Ids : MarkAsSyncedCall(id)
    \/ \E id \in Ids : MarkPDFAsSyncedCall(id)
    \/ AttemptSyncCall
    \/ AttemptSyncPDFCall

Next == OwnNext \/ DirectCall

Spec == Init /\ [][Next]_vars

\* the saves and what follows from them alone: no direct markAsSynced call
OwnSpec == Init /\ [][OwnNext]_vars

\* time passes: Date.now() gives a later value
Tick ==
    /\ now < MaxClock
    /\ now' = now + 1
    /\ ret' = [op |-> "tick", outcome |-> "none", id |-> 0]
    /\ UNCHANGED <<sigs, pdfSigs, onLine, timers, pdfCalls, nextId, log, args, ui>>

\* the saves and their sync while time passes
ClockSpec == Init /\ [][OwnNext \/ Tick]_vars

\* the same with direct calls of markAsSynced and markPDFAsSynced
MarkNext ==
    \/ \E id \in Ids : MarkAsSyncedCall(id)
    \/ \E id \in Ids : MarkPDFAsSyncedCall(id)

SaveNext ==
    \/ \E d \in DocumentIds, t \in DocumentTypes :
          SaveSignature(d, t, PngDataUrl)
    \/ \E d \in DocumentIds :
          SavePDFSignatureCall(d, TwoPages, PngDataUrl, At(1))
    \/ \E k \in 1..MaxCalls : SavePDFSignatureResume(k)
    \/ SyncCallback
    \/ SyncPDFCallback

\* saves that succeed, their sync and direct marks while time passes, the
\* connectivity as it is at the start
WriteOnceSpec == Init /\ [][SaveNext \/ MarkNext \/ Tick]_vars

\* localStorage.setItem throws where the medium rejects the write
SetItemThrows ==
    \/ SaveSignatureSetItemThrows
    \/ \E k \in 1..MaxCalls : SavePDFSignatureSetItemThrows(k)
    \/ \E n \in 1..MaxRecords : SyncCallbackSetItemThrows(n)
    \/ \E n \in 1..MaxRecords : SyncPDFCallbackSetItemThrows(n)

\* the saves and their sync on a medium that may reject any write
RejectSpec == Init /\ [][OwnNext \/ SetItemThrows]_vars

\* a store's value is corrupted, and what the tasks do then
CorruptNext ==
    \/ \E store \in {"plain", "pdf"} : CorruptStore(store)
    \/ SaveSignatureParseThrows
    \/ SyncCallbackParseThrows
    \/ OnlineListenerParseThrows
    \/ GetStoredSignaturesCall
    \/ GetUnsyncedSignaturesCall
    \/ GetStoredPDFSignaturesCall
    \/ GetUnsyncedPDFSignaturesCall

\* the saves, their sync and the listings on stores that may be corrupted
CorruptSpec == Init /\ [][OwnNext \/ CorruptNext]_vars

\* savePDFSignature is called with one byte buffer, drawn at the start
CodecInit ==
    /\ sigs = <<>>
    /\ pdfSigs = <<>>
    /\ onLine \in BOOLEAN
    /\ timers = <<>>
    /\ pdfCalls = <<>>
    /\ nextId = 1
    /\ ret = [op |-> "none", outcome |-> "none", id |-> 0]
    /\ log = <<>>
    /\ now = 0
    /\ args \in CodecArgs
    /\ ui = NoUi

CodecNext ==
    \/ \E d \in DocumentIds : SavePDFSignatureCall(d, args[1], args[2], args[3])
    \/ \E k \in 1..MaxCalls : SavePDFSignatureResume(k)
    \/ \E k \in 1..MaxCalls : SavePDFSignatureReject(k)
    \/ SyncPDFCallback
    \/ \E id \in Ids : MarkPDFAsSyncedCall(id)
    \/ GetStoredPDFSignaturesCall

\* the PDF store written, rewritten and listed with the buffer drawn
CodecSpec == CodecInit /\ [][CodecNext]_vars

\* applySignatureToPdf is called with arguments drawn at the start
AnnotateInit ==
    /\ sigs = <<>>
    /\ pdfSigs = <<>>
    /\ onLine \in BOOLEAN
    /\ timers = <<>>
    /\ pdfCalls = <<>>
    /\ nextId = 1
    /\ ret = [op |-> "none", outcome |-> "none", id |-> 0]
    /\ log = <<>>
    /\ now = 0
    /\ args \in AnnotateArgs
    /\ ui = NoUi

\* a call of applySignatureToPdf with the arguments drawn, to its end
ApplySignatureToPdfCall ==
    /\ ret.op = "none"
    /\ LET applied == ApplySignatureToPdf(args[1], args[2], args[3])
       IN ret' = [op |-> "applySignatureToPdf",
                  outcome |-> IF applied.ok THEN "fulfilled" ELSE "rejected",
                  id |-> 0, value |-> applied]
    /\ UNCHANGED <<sigs, pdfSigs, onLine, timers, pdfCalls, nextId, log, now, args, ui>>

AnnotateSpec == AnnotateInit /\ [][ApplySignatureToPdfCall]_vars

\* A pending setTimeout callback is run, and a pending annotation settles.
Fairness ==
    /\ WF_vars(SyncCallback)
    /\ WF_vars(SyncPDFCallback)
    /\ WF_vars(\E k \in 1..MaxCalls : SavePDFSignatureResume(k))
    /\ WF_vars(\E k \in 1..MaxCalls : SavePDFSignatureReject(k))

FairSpec == Init /\ [][Next]_vars /\ Fairness

\* the persisted data of a store is removed from outside the service
\* (localStorage.removeItem, clearing the site data): getItem gives null and
\* the listing is [] (lines 125-126, 145-146)
ClearStorage(store) ==
    /\ store = "plain" => (sigs /= <<>> /\ sigs' = <<>> /\ pdfSigs' = pdfSigs)
    /\ store = "pdf" => (pdfSigs /= <<>> /\ pdfSigs' = <<>> /\ sigs' = sigs)
    /\ ret' = [op |-> "clear", outcome |-> "none", id |-> 0]
    /\ UNCHANGED <<onLine, timers, pdfCalls, nextId, log, now, args, ui>>

ClearNext == \E store \in {"plain", "pdf"} : ClearStorage(store)

\* the saves and what follows from them, with stores that are cleared from
\* outside at any time
ClearSpec == Init /\ [][OwnNext \/ ClearNext]_vars

\* ------------------------------------------------- PDFSignature component
\* A value that may be null (File | null, number | null, ...): the empty
\* sequence is null, a sequence of one element holds the value.
Null == <<>>
Some(value) == <<value>>
\* A string of the component is the sequence of its characters.
Pdf == <<".", "p", "d", "f">>
\* String.prototype.toLowerCase (what the flag i of /\.pdf$/i compares by),
\* on the characters the file names are written with
ToLowerCase(char) ==
    CASE char = "P" -> "p" [] char = "D" -> "d" [] char = "F" -> "f"
      [] OTHER -> char

\* name.replace(/\.pdf$/i, '').substring(0, 20) (line 47)
DocIdOfName(name) ==
    LET n == Len(name)
        matches == /\ n >= Len(Pdf)
                   /\ [i \in 1..Len(Pdf) |-> ToLowerCase(name[n - Len(Pdf) + i])] = Pdf
        replaced == IF matches THEN SubSeq(name, 1, n - Len(Pdf)) ELSE name
    IN SubSeq(replaced, 1, IF Len(replaced) < 20 THEN Len(replaced) ELSE 20)

RECURSIVE Trim(_)
\* String.prototype.trim
Trim(string) ==
    IF string = <<>> THEN string
    ELSE IF Head(string) = " " THEN Trim(Tail(string))
    ELSE IF string[Len(string)] = " " THEN Trim(SubSeq(string, 1, Len(string) - 1))
    ELSE string

\* The files picked: a PDF of 1..MaxPages pages, a file of PDF type, named
\* by its extension only, that pdf.js and pdf-lib cannot load, and a file
\* that is no PDF.
Files ==
    {[name |-> <<"d", "1">> \o Pdf, type |-> "application/pdf", bytes |-> Document(n)] :
        n \in 1..MaxPages}
    \cup {[name |-> <<".", "P", "D", "F">>, type |-> "application/pdf", bytes |-> <<>>],
          [name |-> <<"n", ".", "t", "x", "t">>, type |-> "text/plain", bytes |-> <<>>]}
\* what is typed into the "ID do Documento" field
TypedDocIds == {<<" ">>, <<"d", "1">>}

\* the state of PDFSignature after its first render (lines 23-32); `reader`
\* is the FileReader whose onload is pending
InitialPDFSignature ==
    [component |-> "PDFSignature",
     pdfFile |-> Null,
     pdfBytes |-> Null,
     numPages |-> Null,
     currentPage |-> 1,
     showSignaturePad |-> FALSE,
     isPositioningSignature |-> FALSE,
     signaturePosition |-> Null,
     signatureDataUrl |-> Null,
     docId |-> <<>>,
     signaturePreview |-> Null,
     reader |-> Null]

\* what is rendered (lines 179-329)
FileInputRendered(u) == ~u.showSignaturePad /\ u.pdfFile = Null
DocumentRendered(u) == ~u.showSignaturePad /\ u.pdfFile /= Null
AssinarRendered(u) ==
    DocumentRendered(u) /\ ~u.isPositioningSignature /\ u.signatureDataUrl = Null
CancelarRendered(u) == DocumentRendered(u) /\ u.isPositioningSignature
SalvarEnabled(u) == CancelarRendered(u) /\ u.signaturePosition /= Null
AnteriorEnabled(u) == DocumentRendered(u) /\ ~(u.currentPage <= 1)
ProximaEnabled(u) ==
    DocumentRendered(u) /\ ~(u.numPages = Null \/ u.currentPage >= u.numPages[1])

\* handleFileChange (lines 37-59)
HandleFileChange(u, file) ==
    IF file.type /= "application/pdf" THEN u
    ELSE [u EXCEPT !.pdfFile = Some(file),
                   !.docId = DocIdOfName(file.name),
                   !.reader = Some(file.bytes)]

\* reader.onload (lines 51-56)
ReaderOnLoad(u) ==
    [u EXCEPT !.pdfBytes = Some(NewUint8Array(u.reader[1])), !.reader = Null]

\* onDocumentLoadSuccess (lines 61-63)
OnDocumentLoadSuccess(u, numPages) == [u EXCEPT !.numPages = Some(numPages)]

\* handleStartSignature (lines 65-72)
HandleStartSignature(u) ==
    IF Trim(u.docId) = <<>> THEN u ELSE [u EXCEPT !.showSignaturePad = TRUE]

\* handleSaveSignature (lines 74-81)
HandleSaveSignature(u, dataUrl) ==
    [u EXCEPT !.signatureDataUrl = Some(dataUrl),
              !.showSignaturePad = FALSE,
              !.isPositioningSignature = TRUE,
              !.signaturePreview = Some(dataUrl)]

\* handlePageClick (lines 83-103); the page's div is rendered, so
\* pageCanvasRef.current is set
HandlePageClick(u, x, y) ==
    IF ~u.isPositioningSignature \/ u.signaturePreview = Null THEN u
    ELSE [u EXCEPT !.signaturePosition =
                      Some([x |-> x, y |-> y, pageIndex |-> u.currentPage - 1])]

\* handleCancelPositioning (lines 151-155)
HandleCancelPositioning(u) ==
    [u EXCEPT !.isPositioningSignature = FALSE,
              !.signaturePosition = Null,
              !.signaturePreview = Null]

\* handlePageChange keeping the position when the page changes
HandlePageChange_KeepPosition(u, newPage) ==
    IF newPage > 0 /\ (u.numPages = Null \/ newPage <= u.numPages[1])
    THEN [u EXCEPT !.currentPage = newPage]
    ELSE u

\* handlePageChange (lines 157-165)
HandlePageChange(u, newPage) ==
    IF newPage > 0 /\ (u.numPages = Null \/ newPage <= u.numPages[1])
    THEN [u EXCEPT !.currentPage = newPage,
                   !.signaturePosition =
                      IF u.isPositioningSignature THEN Null ELSE @]
    ELSE u

\* the state handleConfirmPosition sets after its await (lines 134-141)
ResetAfterSave(u) ==
    [u EXCEPT !.isPositioningSignature = FALSE,
              !.signaturePosition = Null,
              !.signaturePreview = Null,
              !.pdfFile = Null,
              !.pdfBytes = Null,
              !.docId = <<>>,
              !.numPages = Null,
              !.currentPage = 1]

\* what handleClosePDFSignature leaves of the component: it is unmounted
HandleClosePDFSignatureState(u) == NoUi

Mounted == ui.component = "PDFSignature"
ServiceVars == <<sigs, pdfSigs, onLine, timers, pdfCalls, nextId, ret, log, now, args>>

\* handleShowPDFSignature: the component is mounted
HandleShowPDFSignature ==
    /\ ui = NoUi
    /\ ui' = InitialPDFSignature
    /\ UNCHANGED ServiceVars

\* the X button: onClose, handleClosePDFSignature unmounts the component
HandleClosePDFSignature ==
    /\ Mounted
    /\ ui' = HandleClosePDFSignatureState(ui)
    /\ UNCHANGED ServiceVars

\* a file is picked in the file input
OnChangeFile(file) ==
    /\ Mounted /\ FileInputRendered(ui)
    /\ ui' = HandleFileChange(ui, file)
    /\ UNCHANGED ServiceVars

\* the FileReader finishes
OnLoadReader ==
    /\ Mounted /\ ui.reader /= Null
    /\ ui' = ReaderOnLoad(ui)
    /\ UNCHANGED ServiceVars

\* react-pdf has loaded the file of the Document rendered
OnLoadSuccess ==
    /\ Mounted /\ DocumentRendered(ui)
    /\ LET bytes == ui.pdfFile[1].bytes
       IN /\ Len(bytes) >= 2 /\ bytes[1] = PdfHeader
          /\ ui' = OnDocumentLoadSuccess(ui, bytes[2])
    /\ UNCHANGED ServiceVars

\* the text field of the document id is edited
OnChangeDocId(value) ==
    /\ Mounted /\ DocumentRendered(ui)
    /\ ui' = [ui EXCEPT !.docId = value]
    /\ UNCHANGED ServiceVars

\* "Assinar" is clicked
OnClickAssinar ==
    /\ Mounted /\ AssinarRendered(ui)
    /\ ui' = HandleStartSignature(ui)
    /\ UNCHANGED ServiceVars

\* the signature pad saves what was drawn: a PNG of the canvas
OnSaveSignaturePad ==
    /\ Mounted /\ ui.showSignaturePad
    /\ ui' = HandleSaveSignature(ui, PngDataUrl)
    /\ UNCHANGED ServiceVars

\* "Cancelar" under the signature pad
OnClickCancelarPad ==
    /\ Mounted /\ ui.showSignaturePad
    /\ ui' = [ui EXCEPT !.showSignaturePad = FALSE]
    /\ UNCHANGED ServiceVars

\* the page is clicked
OnClickPage ==
    /\ Mounted /\ DocumentRendered(ui)
    /\ ui' = HandlePageClick(ui, 50, 70)
    /\ UNCHANGED ServiceVars

\* "Cancelar" while positioning
OnClickCancelar ==
    /\ Mounted /\ CancelarRendered(ui)
    /\ ui' = HandleCancelPositioning(ui)
    /\ UNCHANGED ServiceVars

\* "Anterior"
OnClickAnterior ==
    /\ Mounted /\ AnteriorEnabled(ui)
    /\ ui' = HandlePageChange(ui, ui.currentPage - 1)
    /\ UNCHANGED ServiceVars

\* "Próxima"
OnClickProxima ==
    /\ Mounted /\ ProximaEnabled(ui)
    /\ ui' = HandlePageChange(ui, ui.currentPage + 1)
    /\ UNCHANGED ServiceVars

\* "Salvar": handleConfirmPosition up to its await (lines 105-117)
HandleConfirmPosition ==
    /\ Mounted /\ SalvarEnabled(ui)
    /\ IF \/ ui.pdfBytes = Null
          \/ ui.signatureDataUrl = Null
          \/ ui.signaturePosition = Null
          \/ ui.docId = <<>>
       THEN /\ ret' = [op |-> "handleConfirmPosition", outcome |-> "toast", id |-> 0]
            /\ UNCHANGED <<sigs, pdfSigs, onLine, timers, pdfCalls, nextId,
                           log, now, args, ui>>
       ELSE /\ Len(pdfCalls) < MaxCalls
            /\ nextId + Len(pdfCalls) <= MaxSaves
            /\ pdfCalls' = Append(pdfCalls,
                              [pdfSignatures |-> GetStoredPDFSignatures(pdfSigs),
                               documentId |-> ui.docId,
                               originalPdfBytes |-> ui.pdfBytes[1],
                               signatureDataUrl |-> ui.signatureDataUrl[1],
                               signaturePosition |-> ui.signaturePosition[1]])
            /\ ret' = [op |-> "handleConfirmPosition", outcome |-> "pending", id |-> 0]
            /\ UNCHANGED <<sigs, pdfSigs, onLine, timers, nextId, log, now, args, ui>>

\* savePDFSignature fulfils and handleConfirmPosition goes on after its
\* await (lines 119-144): the state is reset and onClose unmounts the
\* component.  The setters of an instance unmounted before do nothing, and
\* its onClose unmounts the instance on screen.
HandleConfirmPositionFulfilled(k) ==
    /\ k \in 1..Len(pdfCalls)
    /\ LET call == pdfCalls[k]
           applied == AnnotationOf(call)
       IN /\ applied.ok
          /\ LET pdfSignatureData == NewPDFSignatureData(nextId, call, applied.bytes)
                 pdfSignatures == Append(call.pdfSignatures, pdfSignatureData)
                 stored == StringifyPDFSignatures(pdfSignatures)
                 tm == AttemptSyncPDF(onLine, stored, timers)
             IN /\ Len(tm) <= MaxTimers
                /\ pdfSigs' = stored
                /\ timers' = tm
                /\ nextId' = nextId + 1
                /\ ret' = [op |-> "handleConfirmPosition", outcome |-> "returned",
                           id |-> pdfSignatureData.id]
                /\ log' = Append(log, Returned("pdf", pdfSignatureData.id))
    /\ pdfCalls' = RemoveCall(k)
    /\ ui' = IF Mounted THEN HandleClosePDFSignatureState(ResetAfterSave(ui)) ELSE NoUi
    /\ UNCHANGED <<sigs, onLine, now, args>>

\* savePDFSignature rejects and handleConfirmPosition catches the error
\* (lines 145-148)
HandleConfirmPositionRejected(k) ==
    /\ k \in 1..Len(pdfCalls)
    /\ ~AnnotationOf(pdfCalls[k]).ok
    /\ ret' = [op |-> "handleConfirmPosition", outcome |-> "toast", id |-> 0]
    /\ pdfCalls' = RemoveCall(k)
    /\ UNCHANGED <<sigs, pdfSigs, onLine, timers, nextId, log, now, args, ui>>

PDFSignatureNext ==
    \/ HandleShowPDFSignature
    \/ HandleClosePDFSignature
    \/ \E file \in Files : OnChangeFile(file)
    \/ OnLoadReader
    \/ OnLoadSuccess
    \/ \E value \in TypedDocIds : OnChangeDocId(value)
    \/ OnClickAssinar
    \/ OnSaveSignaturePad
    \/ OnClickCancelarPad
    \/ OnClickPage
    \/ OnClickCancelar
    \/ OnClickAnterior
    \/ OnClickProxima
    \/ HandleConfirmPosition
    \/ \E k \in 1..MaxCalls : HandleConfirmPositionFulfilled(k)
    \/ \E k \in 1..MaxCalls : HandleConfirmPositionRejected(k)
    \/ SyncPDFCallback

\* the PDF signing screen opened, used and closed
PDFSignatureSpec == Init /\ [][PDFSignatureNext]_vars

\* ----------------------------------------- DeliveryConfirmation component
\* what is typed into "Nome do Recebedor"
TypedNames == {<<" ">>, <<"a", "n", "a">>}
\* what is typed into "Documento do Recebedor"
TypedDocuments == {<<"1">>}

\* the state of DeliveryConfirmation after its first render, without props
\* (lines 27-38).  savedAtReset is no state of the component: the number of
\* saves that had returned when the form was last reset.
InitialDeliveryConfirmation ==
    [component |-> "DeliveryConfirmation",
     docId |-> <<>>,
     docType |-> "invoice",
     showSignaturePad |-> FALSE,
     signatureSaved |-> FALSE,
     recipientName |-> <<>>,
     recipientDocument |-> <<>>,
     showPDFSignature |-> FALSE,
     activeTab |-> "simple",
     savedAtReset |-> 0]

\* what is rendered (lines 109-265): the card unless the PDF screen is
\* shown, under the overlay of the signature pad when that is shown
CardRendered(u) == ~u.showPDFSignature /\ ~u.showSignaturePad
ColetarEnabled(u) ==
    /\ CardRendered(u)
    /\ u.activeTab = "simple"
    /\ ~u.signatureSaved
    /\ ~(Trim(u.docId) = <<>>)
ConcluirEnabled(u) ==
    /\ CardRendered(u)
    /\ ~((u.activeTab = "simple" /\ ~u.signatureSaved) \/ Trim(u.recipientName) = <<>>)

\* handleCollectSignature (lines 44-51)
HandleCollectSignature(u) ==
    IF Trim(u.docId) = <<>> THEN u ELSE [u EXCEPT !.showSignaturePad = TRUE]

\* handleComplete (lines 76-98): the state it sets and whether it took its
\* success path; `saved` is the number of saves returned
HandleComplete(u, saved) ==
    IF ~u.signatureSaved /\ u.activeTab = "simple"
    THEN [ui |-> u, outcome |-> "toast"]
    ELSE IF Trim(u.recipientName) = <<>>
    THEN [ui |-> u, outcome |-> "toast"]
    ELSE [ui |-> [u EXCEPT !.docId = <<>>,
                           !.recipientName = <<>>,
                           !.recipientDocument = <<>>,
                           !.signatureSaved = FALSE,
                           !.savedAtReset = saved],
          outcome |-> "completed"]

Shown == ui.component = "DeliveryConfirmation"
\* what a handler of the form leaves for the task that follows
Handled(op, outcome) == [op |-> op, outcome |-> outcome, id |-> 0]
ServiceState == <<sigs, pdfSigs, onLine, timers, pdfCalls, nextId, log, now, args>>

\* the document number is edited (handleDocIdChange)
OnChangeDocumentId(value) ==
    /\ Shown /\ CardRendered(ui) /\ ui.activeTab = "simple"
    /\ ui' = [ui EXCEPT !.docId = value]
    /\ ret' = Handled("handleDocIdChange", "none")
    /\ UNCHANGED ServiceState

\* the switch of the document type
OnCheckedChange(checked) ==
    /\ Shown /\ CardRendered(ui) /\ ui.activeTab = "simple"
    /\ ui' = [ui EXCEPT !.docType = IF checked THEN "receipt" ELSE "invoice"]
    /\ ret' = Handled("setDocType", "none")
    /\ UNCHANGED ServiceState

\* the recipient's name is edited (on either tab)
OnChangeRecipientName(value) ==
    /\ Shown /\ CardRendered(ui)
    /\ ui' = [ui EXCEPT !.recipientName = value]
    /\ ret' = Handled("setRecipientName", "none")
    /\ UNCHANGED ServiceState

\* the recipient's document is edited (on either tab)
OnChangeRecipientDocument(value) ==
    /\ Shown /\ CardRendered(ui)
    /\ ui' = [ui EXCEPT !.recipientDocument = value]
    /\ ret' = Handled("setRecipientDocument", "none")
    /\ UNCHANGED ServiceState

\* a tab is chosen
OnValueChange(value) ==
    /\ Shown /\ CardRendered(ui)
    /\ ui' = [ui EXCEPT !.activeTab = value]
    /\ ret' = Handled("setActiveTab", "none")
    /\ UNCHANGED ServiceState

\* "Coletar Assinatura"
OnClickColetar ==
    /\ Shown /\ ColetarEnabled(ui)
    /\ ui' = HandleCollectSignature(ui)
    /\ ret' = Handled("handleCollectSignature", "none")
    /\ UNCHANGED ServiceState

\* "Cancelar" under the signature pad
OnClickCancelarAssinatura ==
    /\ Shown /\ ui.showSignaturePad
    /\ ui' = [ui EXCEPT !.showSignaturePad = FALSE]
    /\ ret' = Handled("setShowSignaturePad", "none")
    /\ UNCHANGED ServiceState

\* the signature pad saves what was drawn: handleSaveSignature (lines 53-74)
\* with the saveSignature it calls
OnSaveSignature ==
    /\ Shown /\ ui.showSignaturePad
    /\ IF Trim(ui.docId) = <<>>
       THEN /\ ret' = Handled("handleSaveSignature", "toast")
            /\ UNCHANGED <<sigs, pdfSigs, onLine, timers, pdfCalls, nextId,
                           log, now, args, ui>>
       ELSE IF ParseThrows(sigs)
       THEN /\ ret' = Handled("handleSaveSignature", "caught")
            /\ UNCHANGED <<sigs, pdfSigs, onLine, timers, pdfCalls, nextId,
                           log, now, args, ui>>
       ELSE /\ nextId <= MaxSaves
            /\ LET signatureData == NewSignatureData(nextId, ui.docId, ui.docType,
                                                     PngDataUrl)
                   signatures == PushSignature(GetStoredSignatures(sigs), signatureData)
                   tm == AttemptSync(onLine, signatures, timers)
               IN /\ Len(tm) <= MaxTimers
                  /\ sigs' = signatures
                  /\ timers' = tm
                  /\ nextId' = nextId + 1
                  /\ ret' = [op |-> "handleSaveSignature", outcome |-> "returned",
                             id |-> signatureData.id]
                  /\ log' = Append(log, Returned("plain", signatureData.id))
            /\ ui' = [ui EXCEPT !.signatureSaved = TRUE, !.showSignaturePad = FALSE]
            /\ UNCHANGED <<pdfSigs, onLine, pdfCalls, now, args>>

\* "Selecionar Documento PDF" (handleShowPDFSignature, lines 101-103)
OnClickSelecionar ==
    /\ Shown /\ CardRendered(ui) /\ ui.activeTab = "pdf"
    /\ ui' = [ui EXCEPT !.showPDFSignature = TRUE]
    /\ ret' = Handled("handleShowPDFSignature", "none")
    /\ UNCHANGED ServiceState

\* the PDF screen calls onClose (handleClosePDFSignature, lines 105-107)
OnClose ==
    /\ Shown /\ ui.showPDFSignature
    /\ ui' = [ui EXCEPT !.showPDFSignature = FALSE]
    /\ ret' = Handled("handleClosePDFSignature", "none")
    /\ UNCHANGED ServiceState

\* "Concluir Entrega"
OnClickConcluir ==
    /\ Shown /\ ConcluirEnabled(ui)
    /\ ui' = HandleComplete(ui, Len(log)).ui
    /\ ret' = Handled("handleComplete", HandleComplete(ui, Len(log)).outcome)
    /\ UNCHANGED ServiceState

DeliveryInit ==
    /\ sigs = <<>>
    /\ pdfSigs = <<>>
    /\ onLine \in BOOLEAN
    /\ timers = <<>>
    /\ pdfCalls = <<>>
    /\ nextId = 1
    /\ ret = [op |-> "none", outcome |-> "none", id |-> 0]
    /\ log = <<>>
    /\ now = 0
    /\ args = NoArgs
    /\ ui = InitialDeliveryConfirmation

DeliveryNext ==
    \/ \E value \in TypedDocIds : OnChangeDocumentId(value)
    \/ \E checked \in BOOLEAN : OnCheckedChange(checked)
    \/ \E value \in TypedNames : OnChangeRecipientName(value)
    \/ \E value \in TypedDocuments : OnChangeRecipientDocument(value)
    \/ \E value \in {"simple", "pdf"} : OnValueChange(value)
    \/ OnClickColetar
    \/ OnClickCancelarAssinatura
    \/ OnSaveSignature
    \/ OnClickSelecionar
    \/ OnClose
    \/ OnClickConcluir
    \/ SyncCallback
    \/ SyncCallbackParseThrows
    \/ CorruptStore("plain")

\* the delivery form filled in, signed and completed
DeliverySpec == DeliveryInit /\ [][DeliveryNext]_vars

\* ------------------------------------------------------------ properties
RECURSIVE IdsIn(_, _)
\* the ids of the saves of `store` that returned, in the order they returned
IdsIn(l, store) ==
    IF l = <<>> THEN <<>>
    ELSE IF Head(l).store = store THEN <<Head(l).id>> \o IdsIn(Tail(l), store)
    ELSE IdsIn(Tail(l), store)

Range(s) == {s[i] : i \in 1..Len(s)}
NoDuplicates(s) == \A i, j \in 1..Len(s) : s[i] = s[j] => i = j
AnyIds == 1..(MaxRecords + 1)
\* of the two persisted values s (plain) and p (PDF), the one of `store`
StoredOf(store, s, p) == IF store = "plain" THEN s ELSE p
ListedOf(store, s, p) == IF store = "plain" THEN GetStoredSignatures(s)
                         ELSE GetStoredPDFSignatures(p)
UnsyncedOf(store, s, p) == IF store = "plain" THEN GetUnsyncedSignatures(s)
                           ELSE GetUnsyncedPDFSignatures(p)
Listed(store) == ListedOf(store, sigs, pdfSigs)
Unsynced(store) == UnsyncedOf(store, sigs, pdfSigs)

\* every record of old is in new, and in the same relative order
KeepsRecords(old, new) ==
    /\ \A i \in 1..Len(old) : \E j \in 1..Len(new) : new[j].id = old[i].id
    /\ \A i1, i2 \in 1..Len(old) : \A j1, j2 \in 1..Len(new) :
          (i1 < i2 /\ new[j1].id = old[i1].id /\ new[j2].id = old[i2].id)
             => j1 < j2

\* C1: no step of the subsystem removes a record from a store or reorders
\* the records of a store, and the k saves of a store that returned leave k
\* records in it.
C1_NoRecordDeleted ==
    [][/\ KeepsRecords(sigs, sigs')
       /\ KeepsRecords(pdfSigs, pdfSigs')
       /\ Len(sigs') = Len(IdsIn(log', "plain"))
       /\ Len(pdfSigs') = Len(IdsIn(log', "pdf"))]_vars

\* a record that is synced in old is synced in new, if new has it
SyncedStays(old, new) ==
    \A i \in 1..Len(old), j \in 1..Len(new) :
        (old[i].id = new[j].id /\ old[i].synced) => new[j].synced

\* C2: once the persisted state shows a record synced, every later persisted
\* state that has the record shows it synced.
C2_SyncedNeverReverts ==
    [][SyncedStays(sigs, sigs') /\ SyncedStays(pdfSigs, pdfSigs')]_vars

\* C3, as claimed: after n saveSignature calls on an empty plain store the
\* listing has the n records in call order, each with synced = false.
C3_AppendMonotonicity ==
    /\ IdsOf(GetStoredSignatures(sigs)) = IdsIn(log, "plain")
    /\ \A i \in 1..Len(sigs) : ~GetStoredSignatures(sigs)[i].synced

\* C3, amended: after n saveSignature calls on an empty plain store the
\* listing has the n records in call order; a record is created unsynced and
\* stays unsynced until a sync callback or a markAsSynced call marks it.
C3_AppendedUnsyncedUntilMarked ==
    [][/\ IdsOf(GetStoredSignatures(sigs')) = IdsIn(log', "plain")
       /\ \A i \in 1..Len(sigs') :
             sigs'[i].synced =>
                \/ i <= Len(sigs) /\ sigs[i].synced
                \/ ret'.op \in {"syncCallback", "markAsSynced"}]_vars

C3_Witness ==
    /\ ret.op = "saveSignature"
    /\ Len(sigs) = 2
    /\ IdsIn(log, "plain") = <<sigs[1].id, sigs[2].id>>
    /\ sigs[1].synced
    /\ ~sigs[2].synced

\* C4: the step in which a savePDFSignature call whose annotation fails
\* leaves its await raises the failure to the caller, leaves the persisted
\* PDF sequence as it is and schedules no sync.
C4_NoPartialRecordOnFailure ==
    [][\A k \in 1..Len(pdfCalls) :
          (pdfCalls' = RemoveCall(k) /\ ~AnnotationOf(pdfCalls[k]).ok)
             => /\ pdfSigs' = pdfSigs
                /\ timers' = timers
                /\ log' = log
                /\ ret'.op = "savePDFSignature"
                /\ ret'.outcome = "threw"]_vars

C4_Witness ==
    /\ ret.op = "savePDFSignature"
    /\ ret.outcome = "threw"
    /\ Len(pdfSigs) > 0
    /\ Len(timers) > 0

\* the record `id` was saved while the device was offline and its store
\* lists it as unsynced
ListedUnsynced(id) ==
    \E e \in Range(log) :
        /\ e.id = id
        /\ ~e.onLine
        /\ \E r \in Range(Unsynced(e.store)) : r.id = id

IsSynced(id) ==
    \E e \in Range(log) :
        /\ e.id = id
        /\ \E r \in Range(Listed(e.store)) : r.id = id /\ r.synced

\* C5: a record saved while the device was offline and listed as unsynced
\* when the 'online' event fires is eventually synced.  (The claim also has
\* the unsynced listing empty in the end; that is taken over the records
\* listed when the event fired, which is the weaker reading.)
C5_EventualSyncAfterReconnect ==
    \A id \in Ids : (ret.op = "online" /\ ListedUnsynced(id)) ~> IsSynced(id)

\* C6: marking twice writes what marking once writes, marking an id no
\* record has writes the store back as it was, and no mark call throws.
C6_MarkSyncedIdempotentTotal ==
    /\ \A id \in AnyIds :
          LET once == MarkAsSynced(sigs, id)
              pdfOnce == MarkPDFAsSynced(pdfSigs, id)
          IN /\ MarkAsSynced(once, id) = once
             /\ MarkPDFAsSynced(pdfOnce, id) = pdfOnce
             /\ id \notin IdSet(sigs) => once = sigs
             /\ id \notin IdSet(pdfSigs) => pdfOnce = pdfSigs
    /\ ret.op \in {"markAsSynced", "markPDFAsSynced"} => ret.outcome = "returned"

C6_Witness ==
    /\ ret.op = "markPDFAsSynced"
    /\ Len(pdfSigs) > 0
    /\ ret.id \notin IdSet(pdfSigs)
    /\ \E i \in 1..Len(sigs) : sigs[i].synced

C8_SyncTriggers ==
    [][/\ log' /= log =>
             LET e == log'[Len(log')]
             IN /\ e.id \in IdSet(StoredOf(e.store, sigs', pdfSigs'))
                /\ e.onLine =>
                      /\ Len(timers') = Len(timers) + 1
                      /\ timers'[Len(timers')].store = e.store
                      /\ e.id \in Range(timers'[Len(timers')].snapshot)
       /\ (~onLine /\ onLine') =>
             \A store \in {"plain", "pdf"} :
                Unsynced(store) /= <<>> =>
                   \E k \in (Len(timers) + 1)..Len(timers') :
                      timers'[k] = [store |-> store,
                                    snapshot |-> IdsOf(Unsynced(store))]]_vars

C8_Witness ==
    /\ ret.op = "online"
    /\ Len(timers) = 2
    /\ timers[1].store = "plain"
    /\ timers[2].store = "pdf"
    /\ \E e \in Range(log) : ~e.onLine

\* C9: no step that ends with the device offline schedules a push, and an
\* attemptSync / attemptSyncPDF call made offline changes neither store.
C9_OfflineNoOp ==
    [][~onLine' =>
          /\ Len(timers') <= Len(timers)
          /\ ret'.op \in {"attemptSync", "attemptSyncPDF"} =>
                /\ sigs' = sigs
                /\ pdfSigs' = pdfSigs
                /\ timers' = timers]_vars

C9_Witness ==
    /\ ~onLine
    /\ ret.op = "attemptSync"
    /\ Len(Unsynced("plain")) = 2
    /\ timers = <<>>

\* C10: no timer is scheduled for a store that has no unsynced record, and
\* an attemptSync / attemptSyncPDF call on such a store changes neither
\* store nor the timers.
C10_NothingUnsyncedNoOp ==
    [][/\ \A k \in (Len(timers) + 1)..Len(timers') :
             UnsyncedOf(timers'[k].store, sigs', pdfSigs') /= <<>>
       /\ (ret'.op = "attemptSync" /\ Unsynced("plain") = <<>>) =>
             /\ sigs' = sigs
             /\ pdfSigs' = pdfSigs
             /\ timers' = timers
       /\ (ret'.op = "attemptSyncPDF" /\ Unsynced("pdf") = <<>>) =>
             /\ sigs' = sigs
             /\ pdfSigs' = pdfSigs
             /\ timers' = timers]_vars

C10_Witness ==
    /\ onLine
    /\ ret.op = "attemptSyncPDF"
    /\ Len(pdfSigs) > 0
    /\ Unsynced("pdf") = <<>>
    /\ timers = <<>>

\* C11: nothing keeps a record that waits in a pending callback's snapshot
\* out of the next attempt's snapshot, so a record can be acknowledged twice;
\* a callback that finds every record of its snapshot already synced leaves
\* both stores as they are.
C11_SecondAcknowledgmentNoOp ==
    [][(timers /= <<>> /\ timers' = Tail(timers)) =>
          LET t == Head(timers)
              old == StoredOf(t.store, sigs, pdfSigs)
          IN (\A i \in 1..Len(old) :
                 old[i].id \in Range(t.snapshot) => old[i].synced)
                => /\ sigs' = sigs
                   /\ pdfSigs' = pdfSigs]_vars

\* the first of two callbacks that hold the same record has run: the record
\* is synced and still in the snapshot of the callback that is pending
C11_Witness ==
    /\ ret.op \in {"syncCallback", "syncPDFCallback"}
    /\ Len(timers) = 1
    /\ \E r \in Range(Listed(timers[1].store)) :
          r.synced /\ r.id \in Range(timers[1].snapshot)

\* C12: a sync callback in which a write fails runs as its own task: no save
\* is affected (every save that returned has returned its record, which is
\* persisted), the marks made before the failing one stay, and the record
\* whose mark failed and the records after it keep their flag, so the
\* unsynced ones are still unsynced for the next attempt.
C12_SyncFailureDecoupled ==
    [][/\ log' /= log =>
             LET e == log'[Len(log')]
             IN /\ ret'.outcome = "returned"
                /\ ret'.id = e.id
                /\ e.id \in IdSet(StoredOf(e.store, sigs', pdfSigs'))
       /\ (ret'.op \in {"syncCallback", "syncPDFCallback"}
              /\ ret'.outcome = "threw") =>
             /\ timers /= <<>>
             /\ timers' = Tail(timers)
             /\ log' = log
             /\ pdfCalls' = pdfCalls
             /\ LET t == Head(timers)
                    old == StoredOf(t.store, sigs, pdfSigs)
                    new == StoredOf(t.store, sigs', pdfSigs')
                IN /\ \E n \in 1..Len(t.snapshot) :
                         /\ Len(new) = Len(old)
                         /\ \A i \in 1..Len(old) :
                               new[i] =
                                 IF old[i].id \in Range(SubSeq(t.snapshot, 1, n - 1))
                                 THEN [old[i] EXCEPT !.synced = TRUE]
                                 ELSE old[i]
                   /\ t.store = "plain" => pdfSigs' = pdfSigs
                   /\ t.store = "pdf" => sigs' = sigs]_vars

\* a callback threw after its first mark: the first record is synced, the
\* second, returned by its save, is persisted and still unsynced
C12_Witness ==
    /\ ret.op = "syncPDFCallback"
    /\ ret.outcome = "threw"
    /\ Len(pdfSigs) = 2
    /\ pdfSigs[1].synced
    /\ ~pdfSigs[2].synced
    /\ IdsIn(log, "pdf") = IdsOf(pdfSigs)
    /\ timers = <<>>

\* C13: a save whose write the medium rejects raises the error to its
\* caller and leaves both persisted sequences as they were; a save that
\* returns a record has persisted it.
C13_RejectedWriteLeavesStore ==
    [][/\ (ret'.op \in {"saveSignature", "savePDFSignature"}
              /\ ret'.outcome = "threw") =>
             /\ sigs' = sigs
             /\ pdfSigs' = pdfSigs
             /\ log' = log
       /\ \A k \in 1..Len(pdfCalls) :
             (pdfCalls' = RemoveCall(k) /\ pdfSigs' = pdfSigs) =>
                ret' = [op |-> "savePDFSignature", outcome |-> "threw", id |-> 0]
       /\ log' /= log =>
             log'[Len(log')].id
                \in IdSet(StoredOf(log'[Len(log')].store, sigs', pdfSigs'))]_vars

\* saveSignature threw on a plain store that has a record
C13_Witness ==
    /\ ret.op = "saveSignature"
    /\ ret.outcome = "threw"
    /\ Len(sigs) > 0
    /\ Len(pdfSigs) > 0

\* C14: a listing of a store whose persisted value does not parse returns
\* the empty sequence and does not throw.
C14_CorruptListsEmpty ==
    /\ (ret.op \in {"getStoredSignatures", "getUnsyncedSignatures"}
          /\ ParseThrows(sigs))
          => (ret.outcome = "returned" /\ ret.value = <<>>)
    /\ (ret.op \in {"getStoredPDFSignatures", "getUnsyncedPDFSignatures"}
          /\ ParseThrows(pdfSigs))
          => (ret.outcome = "returned" /\ ret.value = <<>>)

\* C15: a byte buffer read back from its persisted form is the buffer that
\* was persisted, and every record that getStoredPDFSignatures() returns
\* has the original bytes savePDFSignature was called with and the signed
\* bytes the annotation gave it, whatever was written to the store since.
C15_BinaryRoundTrip ==
    /\ DecodeFromStorage(EncodeForStorage(args[1])) = args[1]
    /\ ret.op = "getStoredPDFSignatures" =>
          \A i \in 1..Len(ret.value) :
             /\ ret.value[i].originalPdfBytes = args[1]
             /\ ret.value[i].signedPdfBytes
                   = ApplySignatureToPdf(args[1], args[2], args[3]).bytes

\* two records with the bytes 0 and 255 are listed after a mark rewrote the
\* store
C15_Witness ==
    /\ ret.op = "getStoredPDFSignatures"
    /\ Len(ret.value) = 2
    /\ ret.value[1].synced
    /\ {0, 255} \subseteq Range(args[1])

\* C16: on a document of pageCount pages applySignatureToPdf is rejected
\* with the page-index error for every page index below 0 or from pageCount
\* on (-1 and pageCount among them), and is fulfilled for page index
\* pageCount - 1 (the image being a PNG).
C16_AnnotationBounds ==
    ret.op = "applySignatureToPdf" =>
       LET pageCount == args[1][2]
           pageIndex == args[3].pageIndex
       IN /\ (pageIndex < 0 \/ pageIndex >= pageCount) =>
                /\ ret.outcome = "rejected"
                /\ ret.value.error = "Page index out of bounds"
          /\ (pageIndex = pageCount - 1 /\ args[2].png) =>
                ret.outcome = "fulfilled"

\* the call with pageIndex = pageCount was rejected
C16_Witness ==
    /\ ret.op = "applySignatureToPdf"
    /\ ret.outcome = "rejected"
    /\ args[3].pageIndex = args[1][2]
    /\ args[2].png

\* the doubles a and b are equal or next to each other
Near(a, b) == a = b \/ Succ(a) = b \/ Succ(b) = a

RECURSIVE OddPart(_)
OddPart(n) == IF n % 2 = 0 THEN OddPart(n \div 2) ELSE n

\* SignatureWidth / w is a double: no rounding in the division
ExactFactor(w) == SignatureWidth % OddPart(w) = 0

\* C20, as claimed: the image is drawn with width exactly 200 and with
\* height 200 * h / w (the double nearest to it).
C20_ScaleInvariant ==
    (ret.op = "applySignatureToPdf" /\ ret.outcome = "fulfilled") =>
       /\ ret.value.width = Divide(SignatureWidth, 1)
       /\ ret.value.height = Divide(SignatureWidth * args[2].height, args[2].width)

\* C20, amended: the image is drawn with width 200 and height 200 * h / w,
\* each up to one unit in the last place of a double, and exactly where
\* 200 / w is a double (400x100 is drawn 200x50); the width does not depend
\* on h, and the height is h times the factor 200 / w that gives the width.
C20_ScaleWithinRounding ==
    (ret.op = "applySignatureToPdf" /\ ret.outcome = "fulfilled") =>
       LET w == args[2].width
           h == args[2].height
       IN /\ Near(ret.value.width, Divide(SignatureWidth, 1))
          /\ Near(ret.value.height, Divide(SignatureWidth * h, w))
          /\ ExactFactor(w) =>
                /\ ret.value.width = Divide(SignatureWidth, 1)
                /\ ret.value.height = Divide(SignatureWidth * h, w)
          /\ args[2] = PngDataUrl =>
                /\ Floor(ret.value.width) = 200
                /\ Floor(ret.value.height) = 50
          /\ \A image \in Images :
                image.width = w =>
                   SignatureDimensions[image].width = ret.value.width
          /\ ret.value.height = Times(h, Divide(SignatureWidth, w))

\* an image 11 wide is drawn with the width after 200
C20_Witness ==
    /\ ret.op = "applySignatureToPdf"
    /\ ret.outcome = "fulfilled"
    /\ args[2].width = 11
    /\ ret.value.width = Succ(Divide(SignatureWidth, 1))

PlainOps == {"saveSignature", "markAsSynced", "attemptSync", "syncCallback"}
PDFOps == {"savePDFSignature", "markPDFAsSynced", "attemptSyncPDF",
           "syncPDFCallback"}

\* C17: a record is in the store of the save that returned it and not in
\* the other one; saveSignature, markAsSynced, attemptSync and its callback
\* leave the persisted PDF sequence as it is, and savePDFSignature,
\* markPDFAsSynced, attemptSyncPDF and its callback leave the persisted
\* plain sequence as it is.
C17_StoreIndependence ==
    [][/\ ret'.op \in PlainOps => pdfSigs' = pdfSigs
       /\ ret'.op \in PDFOps => sigs' = sigs
       /\ (sigs' /= sigs \/ pdfSigs' /= pdfSigs) =>
             /\ \A i \in 1..Len(sigs') :
                   /\ \E e \in Range(log') :
                         e.store = "plain" /\ e.id = sigs'[i].id
                   /\ \A j \in 1..Len(pdfSigs') : pdfSigs'[j].id /= sigs'[i].id
             /\ \A j \in 1..Len(pdfSigs') :
                   \E e \in Range(log') :
                      e.store = "pdf" /\ e.id = pdfSigs'[j].id]_vars

\* each store has a record of its own; a PDF mark has set the flag of the
\* PDF record and the plain record is unsynced as before
C17_Witness ==
    /\ ret.op = "markPDFAsSynced"
    /\ Len(sigs) = 1
    /\ Len(pdfSigs) = 1
    /\ ret.id = pdfSigs[1].id
    /\ pdfSigs[1].synced
    /\ ~sigs[1].synced

\* the records of old that new has are the same in new but for synced
SameButSynced(old, new) ==
    \A i \in 1..Len(old), j \in 1..Len(new) :
        old[i].id = new[j].id => [new[j] EXCEPT !.synced = old[i].synced] = old[i]

\* new is old with the flag of the record `id` set
OnlyFlagOf(id, old, new) ==
    /\ Len(new) = Len(old)
    /\ \A i \in 1..Len(old) :
          new[i] = IF old[i].id = id THEN [old[i] EXCEPT !.synced = TRUE]
                   ELSE old[i]

\* C18: whatever step is taken, a record that stays in its store keeps its
\* id, documentId, documentType, image, timestamp, bytes and position, in the
\* persisted value and in the listing; a markAsSynced(id) or
\* markPDFAsSynced(id) call changes the flag of the record `id` and nothing
\* else in either store.
C18_WriteOnceFields ==
    [][/\ sigs' /= sigs => SameButSynced(sigs, sigs')
       /\ pdfSigs' /= pdfSigs =>
             /\ SameButSynced(pdfSigs, pdfSigs')
             /\ SameButSynced(GetStoredPDFSignatures(pdfSigs),
                              GetStoredPDFSignatures(pdfSigs'))
       /\ ret'.op = "markAsSynced" =>
             /\ OnlyFlagOf(ret'.id, sigs, sigs')
             /\ pdfSigs' = pdfSigs
       /\ ret'.op = "markPDFAsSynced" =>
             /\ OnlyFlagOf(ret'.id, pdfSigs, pdfSigs')
             /\ sigs' = sigs]_vars

\* markAsSynced(id) has run on a store of two records saved at different
\* times: the record `id` is synced and the other is not
C18_Witness ==
    /\ ret.op = "markAsSynced"
    /\ Len(sigs) = 2
    /\ sigs[1].timestamp < sigs[2].timestamp
    /\ \A i \in 1..2 : sigs[i].synced <=> sigs[i].id = ret.id

\* the timestamps of s do not decrease along s
TimestampsInOrder(s) ==
    \A i, j \in 1..Len(s) : i < j => s[i].timestamp <= s[j].timestamp

\* C19: in every reachable state the timestamps of the persisted plain
\* sequence and of the persisted PDF sequence do not decrease along the
\* sequence.
C19_TimestampOrder ==
    /\ TimestampsInOrder(sigs)
    /\ TimestampsInOrder(pdfSigs)

\* two savePDFSignature calls overlapped and both returned (the store has
\* the record of the one that finished last), time having passed
C19_Witness ==
    /\ ret.op = "savePDFSignature"
    /\ ret.outcome = "returned"
    /\ Len(IdsIn(log, "pdf")) = 2
    /\ Len(pdfSigs) = 1
    /\ pdfSigs[1].timestamp > 0

\* C21: a push is scheduled only by an attempt made while online, and its
\* callback does not look at the connectivity: whether the device is online
\* or has gone offline since, after the callback every record of the store
\* whose id is in the callback's snapshot is synced, and the store has the
\* records it had.
C21_CallbackIgnoresConnectivity ==
    [][/\ Len(timers') > Len(timers) => onLine'
       /\ (timers /= <<>> /\ timers' = Tail(timers)) =>
             LET t == Head(timers)
                 old == ListedOf(t.store, sigs, pdfSigs)
                 new == ListedOf(t.store, sigs', pdfSigs')
             IN /\ onLine' = onLine
                /\ IdsOf(new) = IdsOf(old)
                /\ \A i \in 1..Len(new) :
                      new[i].id \in Range(t.snapshot) => new[i].synced]_vars

\* a callback has run while the device was offline, and the record of each
\* store is synced
C21_Witness ==
    /\ ret.op \in {"syncCallback", "syncPDFCallback"}
    /\ ~onLine
    /\ timers = <<>>
    /\ Len(sigs) = 1 /\ sigs[1].synced
    /\ Len(pdfSigs) = 1 /\ pdfSigs[1].synced

\* C22: an acknowledgment callback that runs after its store was cleared
\* returns, leaves in the store exactly the records that were there before it
\* ran (no cleared record comes back), and leaves every record whose id is
\* not in its snapshot, the records appended after the clearing among them,
\* as it was.
C22_LateAcknowledgmentHarmless ==
    [][(timers /= <<>> /\ timers' = Tail(timers)) =>
          LET t == Head(timers)
              old == ListedOf(t.store, sigs, pdfSigs)
              new == ListedOf(t.store, sigs', pdfSigs')
          IN /\ ret'.outcome = "returned"
             /\ IdsOf(new) = IdsOf(old)
             /\ \A i \in 1..Len(old) :
                   old[i].id \notin Range(t.snapshot) => new[i] = old[i]
             /\ StoredOf(IF t.store = "plain" THEN "pdf" ELSE "plain",
                         sigs', pdfSigs')
                   = StoredOf(IF t.store = "plain" THEN "pdf" ELSE "plain",
                              sigs, pdfSigs)]_vars

\* a callback has run whose snapshot held only a record that was cleared
\* while the push was pending: the plain store has the record saved after
\* the clearing, unsynced, and not the cleared one
C22_Witness ==
    /\ ret.op = "syncCallback"
    /\ Len(log) = 2
    /\ log[1].store = "plain" /\ log[2].store = "plain"
    /\ Len(sigs) = 1
    /\ sigs[1].id = log[2].id
    /\ ~sigs[1].synced

\* C23: in every reachable state every persisted PDF record has its original
\* bytes, its signed bytes and its placement, read back from the store as
\* well, and the signed bytes are what the annotation of the record's
\* original bytes with its image at its placement gives, which succeeds.
C23_PDFRecordsComplete ==
    LET listed == GetStoredPDFSignatures(pdfSigs)
    IN /\ Len(listed) = Len(pdfSigs)
       /\ \A i \in 1..Len(pdfSigs) :
             LET applied == ApplySignatureToPdf(listed[i].originalPdfBytes,
                                                listed[i].signatureDataUrl,
                                                listed[i].signaturePosition)
             IN /\ {"originalPdfBytes", "signedPdfBytes", "signaturePosition"}
                      \subseteq (DOMAIN pdfSigs[i] \cap DOMAIN listed[i])
                /\ applied.ok
                /\ listed[i].signedPdfBytes = applied.bytes
                /\ pdfSigs[i].signedPdfBytes = EncodeForStorage(applied.bytes)
                /\ pdfSigs[i].originalPdfBytes
                      = EncodeForStorage(listed[i].originalPdfBytes)

\* a savePDFSignature call has failed in its annotation while the store
\* holds a record that a mark has rewritten
C23_Witness ==
    /\ ret.op = "savePDFSignature"
    /\ ret.outcome = "threw"
    /\ \E i \in 1..Len(pdfSigs) : pdfSigs[i].synced

\* C24: whatever the two stores hold, the 'online' listener returns and has
\* made the PDF attempt: every PDF record that is listed as unsynced when
\* the listener ends is in the snapshot of a pending PDF callback.
C24_NoFatalStoreState ==
    ret.op = "online" =>
       /\ ret.outcome = "returned"
       /\ \A r \in Range(Unsynced("pdf")) :
             \E n \in 1..Len(timers) :
                /\ timers[n].store = "pdf"
                /\ r.id \in Range(timers[n].snapshot)

\* the ids of the records of s that have synced = true
SyncedIds(s) == {s[i].id : i \in {k \in 1..Len(s) : s[k].synced}}

\* the ids that are synced in the PDF store p or in the list that a
\* suspended savePDFSignature call of `calls` has read and will write back
PDFSyncedIds(p, calls) ==
    SyncedIds(GetStoredPDFSignatures(p))
       \cup UNION {SyncedIds(calls[k].pdfSignatures) : k \in 1..Len(calls)}

\* C25: under saves, connectivity events and callbacks, a timer is added
\* only while the device is online and its snapshot holds records of its
\* store; an id becomes synced, in a store or in the list a suspended save
\* holds, only in the step that runs a callback of that store with the id
\* in its snapshot.  So no save, event or attempt without a callback makes
\* a record synced, and every synced flag goes back to a completed push.
C25_SyncedImpliesPushed ==
    [][/\ Len(timers') > Len(timers) =>
             /\ onLine'
             /\ \A n \in (Len(timers) + 1)..Len(timers') :
                   Range(timers'[n].snapshot)
                      \subseteq IdSet(StoredOf(timers'[n].store, sigs', pdfSigs'))
       /\ \A id \in SyncedIds(sigs') \ SyncedIds(sigs) :
             /\ timers /= <<>> /\ timers' = Tail(timers)
             /\ Head(timers).store = "plain"
             /\ id \in Range(Head(timers).snapshot)
       /\ \A id \in PDFSyncedIds(pdfSigs', pdfCalls')
                        \ PDFSyncedIds(pdfSigs, pdfCalls) :
             /\ timers /= <<>> /\ timers' = Tail(timers)
             /\ Head(timers).store = "pdf"
             /\ id \in Range(Head(timers).snapshot)]_vars

\* a callback has marked a record while a record that was saved offline is
\* still unsynced
C25_Witness ==
    /\ ret.op \in {"syncCallback", "syncPDFCallback"}
    /\ Len(log) = 2
    /\ log[1].onLine /\ ~log[2].onLine
    /\ \E r \in Range(Listed(log[1].store)) : r.id = log[1].id /\ r.synced
    /\ \E r \in Range(Listed(log[2].store)) : r.id = log[2].id /\ ~r.synced

\* the position set, if one is set, is on the page displayed, and the page
\* displayed is a page of the document
PositionOnDisplayedPage(u) ==
    (u.component = "PDFSignature" /\ u.signaturePosition /= Null) =>
       /\ u.signaturePosition[1].pageIndex = u.currentPage - 1
       /\ 1 <= u.currentPage
       /\ u.numPages /= Null => u.currentPage <= u.numPages[1]

\* C26: in the PDF signing screen a signature position that is set refers to
\* the page displayed (pageIndex = currentPage - 1, with 1 <= currentPage,
\* and currentPage <= numPages once numPages is known) after every step, and
\* every call of savePDFSignature is given the placement of the page
\* displayed when it is made.
C26_PositionOnDisplayedPage ==
    [][/\ PositionOnDisplayedPage(ui')
       /\ Len(pdfCalls') > Len(pdfCalls) =>
             pdfCalls'[Len(pdfCalls')].signaturePosition.pageIndex
                = ui.currentPage - 1]_vars

\* a call suspended that was made with a placement on the second page, and
\* a position set again on the second page
C26_Witness ==
    /\ Mounted
    /\ ui.signaturePosition /= Null
    /\ ui.currentPage = 2
    /\ pdfCalls /= <<>>
    /\ pdfCalls[1].signaturePosition.pageIndex = 1

\* the states the component's own actions lead to in one step from u,
\* closing and saving left out
OwnSteps(u) ==
    {HandleStartSignature(v) : v \in {w \in {u} : AssinarRendered(w)}}
    \cup {HandleSaveSignature(v, PngDataUrl) : v \in {w \in {u} : w.showSignaturePad}}
    \cup {[v EXCEPT !.showSignaturePad = FALSE] : v \in {w \in {u} : w.showSignaturePad}}
    \cup {HandlePageClick(v, 50, 70) : v \in {w \in {u} : DocumentRendered(w)}}
    \cup {HandleCancelPositioning(v) : v \in {w \in {u} : CancelarRendered(w)}}
    \cup {HandlePageChange(v, v.currentPage - 1) : v \in {w \in {u} : AnteriorEnabled(w)}}
    \cup {HandlePageChange(v, v.currentPage + 1) : v \in {w \in {u} : ProximaEnabled(w)}}
    \cup {[u EXCEPT !.docId = value] : value \in {t \in TypedDocIds : DocumentRendered(u)}}
    \cup {ReaderOnLoad(v) : v \in {w \in {u} : w.reader /= Null}}
    \cup {OnDocumentLoadSuccess(v, v.pdfFile[1].bytes[2]) :
            v \in {w \in {u} : /\ DocumentRendered(w)
                               /\ Len(w.pdfFile[1].bytes) >= 2
                               /\ w.pdfFile[1].bytes[1] = PdfHeader}}

RECURSIVE ReachableFrom(_)
\* the states the component's own actions lead to from the states of `seen`
ReachableFrom(seen) ==
    LET more == seen \cup UNION {OwnSteps(u) : u \in seen}
    IN IF more = seen THEN seen ELSE ReachableFrom(more)

\* C27: the PDF signing flow never gets stuck: from every state of the
\* component in which a PDF is loaded, the component's own actions (sign,
\* capture, click the page, cancel positioning, change page, edit the id),
\* closing left out, lead to a state in which "Salvar" is enabled.
C27_SaveStaysReachable ==
    (Mounted /\ ui.pdfFile /= Null) =>
       \E u \in ReachableFrom({ui}) : SalvarEnabled(u)

\* C28: a delivery is confirmed only after a signature was saved for it: a
\* step in which handleComplete takes its success path (onComplete, form
\* reset) is taken only when a save through SignatureService has returned
\* since the form was last reset and the recipient's name is not blank, on
\* either tab of the form.
C28_CompleteOnlyAfterSave ==
    [][(ret'.op = "handleComplete" /\ ret'.outcome = "completed") =>
          /\ Len(log) > ui.savedAtReset
          /\ Trim(ui.recipientName) /= <<>>]_vars

====
